---- MODULE Spec2Model ----
(***************************************************************************)
(* Revenue summary service: tenant-scoped cache in front of the monthly    *)
(* revenue aggregation.                                                    *)
(*   backend/app/services/cache.py         key derivation, read-through    *)
(*                                         cache, invalidation             *)
(*   backend/app/services/reservations.py  monthly aggregation             *)
(*   backend/app/api/v1/dashboard.py       API boundary                    *)
(* Identifiers are sequences of one-character strings, so that lower(),    *)
(* strip(), concatenation and glob matching are computed on characters.    *)
(***************************************************************************)
EXTENDS Integers, Sequences, FiniteSets, TLC

VARIABLES
    kin,        \* key derivation: the (tenant_id, property_id) arguments of the calls
    kout,       \* key derivation: the outcome of each call, <<>> before the calls
    store,      \* cache store: key -> [val, ttl], the domain is the set of live keys
    reqs,       \* get_revenue_summary calls in flight: frame of each request slot
    inv,        \* invalidate_tenant_cache call in flight: its frame
    db,         \* data source: the rows of the reservations table
    stale       \* history: <<tenant, key>> where the entry under key was live when an
                \* invalidation of tenant returned, has not been rewritten since, and
                \* no request of that tenant for that key has started since

vars == <<kin, kout, store, reqs, inv, db, stale>>

-----------------------------------------------------------------------------
(* Bounds of the model *)

\* longest tenant / property identifier enumerated for the key derivation
MaxLen == 2

\* get_revenue_summary calls that may be in flight together
NumReqs == 1

\* reservations an external writer inserts during a run
MaxRows == 1

-----------------------------------------------------------------------------
(* Characters and strings *)

UpperChars == <<"A","B","C","D","E","F","G","H","I","J","K","L","M",
                "N","O","P","Q","R","S","T","U","V","W","X","Y","Z">>

LowerChars == <<"a","b","c","d","e","f","g","h","i","j","k","l","m",
                "n","o","p","q","r","s","t","u","v","w","x","y","z">>

\* str.lower() on one character
LowerChar(c) ==
    IF \E i \in 1..Len(UpperChars) : UpperChars[i] = c
    THEN LowerChars[CHOOSE i \in 1..Len(UpperChars) : UpperChars[i] = c]
    ELSE c

\* str.upper() on one character
UpperChar(c) ==
    IF \E i \in 1..Len(LowerChars) : LowerChars[i] = c
    THEN UpperChars[CHOOSE i \in 1..Len(LowerChars) : LowerChars[i] = c]
    ELSE c

\* str.lower()
Lower(s) == [i \in 1..Len(s) |-> LowerChar(s[i])]

\* the characters str.strip() removes
IsSpace(c) == c \in {" ", "\t", "\n", "\r", "\f"}

RECURSIVE LStrip(_)
LStrip(s) == IF s # <<>> /\ IsSpace(Head(s)) THEN LStrip(Tail(s)) ELSE s

RECURSIVE RStrip(_)
RStrip(s) ==
    IF s # <<>> /\ IsSpace(s[Len(s)]) THEN RStrip(SubSeq(s, 1, Len(s) - 1)) ELSE s

\* str.strip()
Strip(s) == RStrip(LStrip(s))

\* all strings over the alphabet A of length at most n
StrsUpTo(A, n) == UNION {[1..k -> A] : k \in 0..n}

\* s starts with pre
StartsWith(s, pre) == Len(pre) <= Len(s) /\ SubSeq(s, 1, Len(pre)) = pre

-----------------------------------------------------------------------------
(* cache.py: key derivation *)

S_default_tenant == <<"d","e","f","a","u","l","t","_","t","e","n","a","n","t">>
S_null == <<"n","u","l","l">>
S_undefined == <<"u","n","d","e","f","i","n","e","d">>
S_none == <<"n","o","n","e">>
S_revenue_colon == <<"r","e","v","e","n","u","e",":">>

\* cache.py:31
invalid_values == {S_default_tenant, S_null, S_undefined, S_none, <<>>}

\* the outcome of a call: a returned value or a raised exception
Returned(v) == [raised |-> "none", value |-> v]
Raised(e) == [raised |-> e, value |-> <<>>]

\* mutation: the fallback values are compared case-sensitively
make_cache_key_case_sensitive(tenant_id, property_id) ==
    IF tenant_id = <<>> \/ Strip(tenant_id) = <<>> THEN Raised("ValueError")
    ELSE IF tenant_id \in invalid_values THEN Raised("ValueError")
    ELSE Returned(S_revenue_colon \o tenant_id \o <<":">> \o property_id)

\* mutation: the key is not scoped by the tenant
make_cache_key_unscoped(tenant_id, property_id) ==
    IF tenant_id = <<>> \/ Strip(tenant_id) = <<>> THEN Raised("ValueError")
    ELSE IF Lower(tenant_id) \in invalid_values THEN Raised("ValueError")
    ELSE Returned(S_revenue_colon \o property_id)

\* _make_cache_key(tenant_id, property_id)
make_cache_key(tenant_id, property_id) ==
    IF tenant_id = <<>> \/ Strip(tenant_id) = <<>> THEN Raised("ValueError")
    ELSE IF Lower(tenant_id) \in invalid_values THEN Raised("ValueError")
    ELSE Returned(S_revenue_colon \o tenant_id \o <<":">> \o property_id)

-----------------------------------------------------------------------------
(* dashboard.py: the property id charset *)

IdChars == {"a","b","c","d","e","f","g","h","i","j","k","l","m",
            "n","o","p","q","r","s","t","u","v","w","x","y","z",
            "A","B","C","D","E","F","G","H","I","J","K","L","M",
            "N","O","P","Q","R","S","T","U","V","W","X","Y","Z",
            "0","1","2","3","4","5","6","7","8","9","_","-"}

\* PROPERTY_ID_PATTERN.match(property_id): ^[a-zA-Z0-9_-]{1,50}$, where $ also
\* matches just before a newline that ends the string
PROPERTY_ID_PATTERN(property_id) ==
    LET core == IF property_id # <<>> /\ property_id[Len(property_id)] = "\n"
                THEN SubSeq(property_id, 1, Len(property_id) - 1)
                ELSE property_id
    IN Len(core) \in 1..50 /\ \A i \in 1..Len(core) : core[i] \in IdChars

\* _validate_property_id(property_id)
validate_property_id(property_id) ==
    IF property_id = <<>> \/ ~PROPERTY_ID_PATTERN(property_id)
    THEN Raised("HTTP400")
    ELSE Returned(property_id)

-----------------------------------------------------------------------------
(* Decimal strings *)

DigitChars == <<"0","1","2","3","4","5","6","7","8","9">>

\* the decimal digits of a natural number
RECURSIVE NatStr(_)
NatStr(n) == IF n < 10 THEN <<DigitChars[n + 1]>>
             ELSE NatStr(n \div 10) \o <<DigitChars[(n % 10) + 1]>>

\* two digits, zero padded: f"{month:02d}"
Pad2(n) == IF n < 10 THEN <<"0">> \o NatStr(n) ELSE NatStr(n)

\* str(Decimal) of an amount the data source holds with two fractional digits
DecimalStr(cents) == NatStr(cents \div 100) \o <<".">> \o Pad2(cents % 100)

-----------------------------------------------------------------------------
(* json.dumps / json.loads on the summary dict.  The text is a sequence of  *)
(* tokens; a dict is a function from its keys to its values.               *)

Punct(c) == [t |-> "punct", s |-> <<c>>, n |-> 0]
KeyTok(k) == [t |-> "key", s |-> <<k>>, n |-> 0]
StrTok(s) == [t |-> "str", s |-> s, n |-> 0]
IntTok(n) == [t |-> "int", s |-> <<>>, n |-> n]
BoolTok(b) == [t |-> IF b THEN "true" ELSE "false", s |-> <<>>, n |-> 0]

\* the keys of a summary, in the order the dict is built
FieldOrder == <<"property_id", "tenant_id", "total", "currency", "count", "period", "is_mock">>

\* mutation: the total is written the way a float prints, without its last zero
ValueTok_float(k, v) ==
    CASE k = "count" -> IntTok(v)
      [] k = "is_mock" -> BoolTok(v)
      [] k = "total" /\ v[Len(v)] = "0" -> StrTok(SubSeq(v, 1, Len(v) - 1))
      [] OTHER -> StrTok(v)

\* the JSON value of a Python value stored under key k
ValueTok(k, v) ==
    CASE k = "count" -> IntTok(v)
      [] k = "is_mock" -> BoolTok(v)
      [] OTHER -> StrTok(v)

RECURSIVE DumpMembers(_, _, _)
DumpMembers(d, i, first) ==
    IF i > Len(FieldOrder) THEN <<>>
    ELSE IF FieldOrder[i] \notin DOMAIN d THEN DumpMembers(d, i + 1, first)
    ELSE (IF first THEN <<>> ELSE <<Punct(",")>>)
         \o <<KeyTok(FieldOrder[i]), Punct(":"), ValueTok(FieldOrder[i], d[FieldOrder[i]])>>
         \o DumpMembers(d, i + 1, FALSE)

\* json.dumps(result)
JsonDumps(d) == <<Punct("{")>> \o DumpMembers(d, 1, TRUE) \o <<Punct("}")>>

IsValueTok(tok) == tok.t \in {"str", "int", "true", "false"}

\* the Python value of a JSON value token
TokValue(tok) ==
    CASE tok.t = "str" -> tok.s
      [] tok.t = "int" -> tok.n
      [] tok.t = "true" -> TRUE
      [] OTHER -> FALSE

EmptyDict == [k \in {} |-> <<>>]

\* members of an object from token i on, d the members read so far;
\* a later duplicate key replaces the earlier one
RECURSIVE LoadMembers(_, _, _)
LoadMembers(toks, i, d) ==
    IF i + 3 > Len(toks) THEN Raised("ValueError")
    ELSE IF ~(toks[i].t = "key" /\ toks[i + 1] = Punct(":") /\ IsValueTok(toks[i + 2]))
         THEN Raised("ValueError")
    ELSE LET k == toks[i].s[1]
             d2 == [x \in (DOMAIN d) \cup {k} |->
                        IF x = k THEN TokValue(toks[i + 2]) ELSE d[x]]
         IN IF toks[i + 3] = Punct("}")
            THEN (IF i + 3 = Len(toks) THEN Returned(d2) ELSE Raised("ValueError"))
            ELSE IF toks[i + 3] = Punct(",") THEN LoadMembers(toks, i + 4, d2)
            ELSE Raised("ValueError")

\* json.loads(cached): JSONDecodeError is a ValueError
JsonLoads(toks) ==
    IF toks = <<>> THEN Raised("ValueError")
    ELSE IF Len(toks) = 1 /\ IsValueTok(toks[1]) THEN Returned(TokValue(toks[1]))
    ELSE IF toks[1] # Punct("{") THEN Raised("ValueError")
    ELSE IF Len(toks) = 2 /\ toks[2] = Punct("}") THEN Returned(EmptyDict)
    ELSE LoadMembers(toks, 2, EmptyDict)

-----------------------------------------------------------------------------
(* reservations.py: calendar, time zones and the data source *)

IsLeap(y) == (y % 4 = 0 /\ y % 100 # 0) \/ y % 400 = 0

DaysInMonth(y, m) ==
    IF m = 2 THEN (IF IsLeap(y) THEN 29 ELSE 28)
    ELSE IF m \in {4, 6, 9, 11} THEN 30 ELSE 31

RECURSIVE DaysBeforeYear(_)
DaysBeforeYear(y) ==
    IF y <= 2023 THEN 0 ELSE DaysBeforeYear(y - 1) + (IF IsLeap(y - 1) THEN 366 ELSE 365)

RECURSIVE DaysBeforeMonth(_, _)
DaysBeforeMonth(y, m) ==
    IF m <= 1 THEN 0 ELSE DaysBeforeMonth(y, m - 1) + DaysInMonth(y, m - 1)

\* datetime(year, month, 1) as whole days since 2023-01-01, a Sunday
NaiveDays(y, m) == DaysBeforeYear(y) + DaysBeforeMonth(y, m)

\* the same instant read as UTC, in hours since 2023-01-01T00:00Z
NaiveHours(y, m) == 24 * NaiveDays(y, m)

\* the zones pytz.timezone() resolves in the model
KnownZones == {"UTC", "America/New_York", "America/Asuncion"}

\* pytz.timezone(timezone_str)
pytz_timezone(timezone_str) ==
    IF timezone_str \in KnownZones THEN Returned(timezone_str)
    ELSE Raised("UnknownTimeZoneError")

\* America/Asuncion: daylight time starts at 00:00 on the first Sunday of October,
\* so a first of October that is a Sunday has no local midnight
AsuncionGap(y, m) == m = 10 /\ NaiveDays(y, m) % 7 = 0

\* offset from UTC, in hours, in force at local midnight of the first of the month
UtcOffset(tz, y, m) ==
    CASE tz = "UTC" -> 0
      [] tz = "America/New_York" -> (IF m \in 4..11 THEN 0 - 4 ELSE 0 - 5)
      [] OTHER -> (IF m \in 4..10 THEN 0 - 4 ELSE 0 - 3)

\* local_tz.localize(datetime(y, m, 1), is_dst=None).astimezone(pytz.UTC)
localize_utc(tz, y, m) ==
    IF tz = "America/Asuncion" /\ AsuncionGap(y, m) THEN Raised("NonExistentTimeError")
    ELSE Returned(NaiveHours(y, m) - UtcOffset(tz, y, m))

RECURSIVE SumCents(_)
SumCents(S) ==
    IF S = {} THEN 0
    ELSE LET r == CHOOSE x \in S : TRUE IN r.total_cents + SumCents(S \ {r})

S_USD == <<"U","S","D">>
S_prop_001 == <<"p","r","o","p","-","0","0","1">>
S_prop_002 == <<"p","r","o","p","-","0","0","2">>
S_tenant_a == <<"t","e","n","a","n","t","-","a">>

\* f"{year}-{month:02d}"
PeriodStr(year, month) == NatStr(year) \o <<"-">> \o Pad2(month)

\* reservations.py:111-140, the except branch
MockSummary(property_id, tenant_id, month, year) ==
    LET big == property_id = S_prop_001 /\ tenant_id = S_tenant_a
        two == property_id = S_prop_002
        mock_val == IF big THEN DecimalStr(225000)
                    ELSE IF two THEN DecimalStr(497550) ELSE DecimalStr(0)
        mock_count == IF big \/ two THEN 4 ELSE 0
    IN [property_id |-> property_id, tenant_id |-> tenant_id, total |-> mock_val,
        currency |-> S_USD, count |-> mock_count, period |-> PeriodStr(year, month),
        is_mock |-> TRUE]

\* mutation: the end of December is taken in the same year
PeriodBounds_same_year(tz, month, year) ==
    LET next_month == IF month < 12 THEN month + 1 ELSE 1
        s == localize_utc(tz, year, month)
        e == localize_utc(tz, year, next_month)
    IN IF s.raised = "none" /\ e.raised = "none"
       THEN [fallback |-> FALSE, utc_start |-> s.value, utc_end |-> e.value]
       ELSE [fallback |-> TRUE,
             utc_start |-> NaiveHours(year, month),
             utc_end |-> NaiveHours(year, next_month)]

\* reservations.py:40-66, the period boundaries; fallback is the except branch
PeriodBounds(tz, month, year) ==
    LET next_month == IF month < 12 THEN month + 1 ELSE 1
        next_year == IF month < 12 THEN year ELSE year + 1
        s == localize_utc(tz, year, month)
        e == localize_utc(tz, next_year, next_month)
    IN IF s.raised = "none" /\ e.raised = "none"
       THEN [fallback |-> FALSE, utc_start |-> s.value, utc_end |-> e.value]
       ELSE [fallback |-> TRUE,
             utc_start |-> NaiveHours(year, month),
             utc_end |-> IF month < 12 THEN NaiveHours(year, month + 1)
                         ELSE NaiveHours(year + 1, 1)]

\* reservations.py:70-105, the revenue query and the summary built from its row
QuerySummary(property_id, tenant_id, month, year, utc_start, utc_end, rows) ==
    LET hit == {r \in rows : /\ r.property_id = property_id
                             /\ r.tenant_id = tenant_id
                             /\ r.check_in >= utc_start
                             /\ r.check_in < utc_end}
    IN [property_id |-> property_id, tenant_id |-> tenant_id,
        total |-> DecimalStr(SumCents(hit)), currency |-> S_USD,
        count |-> Cardinality(hit), period |-> PeriodStr(year, month)]

\* calculate_monthly_revenue(property_id, tenant_id, month, year) against a data
\* source that is reachable (up) or not and holds the tables props and rows.
\* Every exception inside the outer try ends in the mock branch: the pool failing,
\* an unknown zone (line 34), a month datetime() rejects, and the debug print of
\* line 68, which reads local_start and local_end that the fallback never binds.
calculate_monthly_revenue(property_id, tenant_id, month, year, up, props, rows) ==
    IF ~up THEN Returned(MockSummary(property_id, tenant_id, month, year))
    ELSE LET tz_rows == {p \in props : p.id = property_id /\ p.tenant_id = tenant_id}
             timezone_str == IF tz_rows = {} THEN "UTC"
                             ELSE (CHOOSE p \in tz_rows : TRUE).timezone
             b == PeriodBounds(timezone_str, month, year)
         IN IF pytz_timezone(timezone_str).raised # "none" \/ month \notin 1..12 \/ b.fallback
            THEN Returned(MockSummary(property_id, tenant_id, month, year))
            ELSE Returned(QuerySummary(property_id, tenant_id, month, year,
                                       b.utc_start, b.utc_end, rows))

-----------------------------------------------------------------------------
(* cache.py: the store and the requests *)

\* cache.py:17
CACHE_TTL == 300

\* redis KEYS pattern matching: * ? and \ (the model's identifiers hold no '[')
RECURSIVE GlobMatch(_, _)
GlobMatch(pat, str) ==
    IF pat = <<>> THEN str = <<>>
    ELSE IF Head(pat) = "*"
         THEN GlobMatch(Tail(pat), str) \/ (str # <<>> /\ GlobMatch(pat, Tail(str)))
    ELSE IF Head(pat) = "?" THEN str # <<>> /\ GlobMatch(Tail(pat), Tail(str))
    ELSE IF Head(pat) = "\\" /\ Len(pat) >= 2
         THEN str # <<>> /\ Head(str) = pat[2]
              /\ GlobMatch(SubSeq(pat, 3, Len(pat)), Tail(str))
    ELSE str # <<>> /\ Head(str) = Head(pat) /\ GlobMatch(Tail(pat), Tail(str))

T_a == <<"a">>
T_ab == <<"a", ":", "b">>
P_c == <<"c">>
P_bc == <<"b", ":", "c">>

\* the (tenant_id, property_id) arguments the callers pass: two real tenants, one a
\* prefix of the other up to a ':', with two of the pairs deriving the same key; and
\* tenant ids the key derivation rejects
SysTenants == {T_a, T_ab}
BadTenants == {<<>>, <<" ">>, <<"N","o","n","e">>}
SysCalls == {<<T_a, P_c>>, <<T_a, P_bc>>, <<T_ab, P_c>>}
AllCalls == SysCalls \cup {<<t, P_c>> : t \in BadTenants}

\* the properties table of the data source
PropertiesTable == {[id |-> P_c, tenant_id |-> T_a, timezone |-> "America/New_York"]}

\* the reservations an external writer inserts, in this order
ReservationPool ==
    << [id |-> 1, property_id |-> P_c, tenant_id |-> T_a,
        check_in |-> NaiveHours(2024, 3) + 5, total_cents |-> 9999],
       [id |-> 2, property_id |-> P_c, tenant_id |-> T_ab,
        check_in |-> NaiveHours(2024, 3) + 48, total_cents |-> 14999],
       [id |-> 3, property_id |-> P_c, tenant_id |-> T_a,
        check_in |-> NaiveHours(2024, 4) + 4, total_cents |-> 19999],
       [id |-> 4, property_id |-> P_bc, tenant_id |-> T_a,
        check_in |-> NaiveHours(2024, 3), total_cents |-> 3] >>

Reqs == 1..NumReqs

NoOutcome == [raised |-> "pending", value |-> <<>>]

IdleReq == [pc |-> "idle", property_id |-> <<>>, tenant_id |-> <<>>, cache_key |-> <<>>,
            result |-> EmptyDict, outcome |-> NoOutcome,
            saw |-> "none", agg |-> "none", wrote |-> "none",
            after_inval |-> FALSE]

\* removed and left count the keys the store removed for the call and the live keys
\* scoped to the tenant when the call returns
IdleInv == [pc |-> "idle", tenant_id |-> <<>>, keys |-> {}, outcome |-> NoOutcome,
            removed |-> 0, left |-> 0, fault |-> "none"]

\* the live keys scoped to a tenant: revenue:<tenant_id>:...
ScopedKeys(st, tenant_id) ==
    {k \in DOMAIN st : StartsWith(k, S_revenue_colon \o tenant_id \o <<":">>)}

\* the live keys get_revenue_summary derives for a tenant
TenantKeys(st, tenant_id) ==
    {k \in DOMAIN st : \E c \in SysCalls :
        LET d == make_cache_key(c[1], c[2])
        IN c[1] = tenant_id /\ d.raised = "none" /\ d.value = k}

\* the history without the marks of the keys ks
Fresh(h, ks) == {m \in h : m[2] \notin ks}

\* the store without the keys ks
Without(st, ks) == [k \in (DOMAIN st) \ ks |-> st[k]]

\* the store after SETEX key ttl val; src remembers the summary the value was
\* serialized from
WithEntry(st, key, val, ttl, src) ==
    [k \in (DOMAIN st) \cup {key} |->
        IF k = key THEN [val |-> val, ttl |-> ttl, src |-> src] ELSE st[k]]

\* mutation: a rejected tenant id is logged like a store error and the request goes on
get_revenue_summary_call_unchecked(r, property_id, tenant_id) ==
    /\ reqs[r].pc = "idle"
    /\ reqs' = [reqs EXCEPT ![r] =
            [IdleReq EXCEPT !.property_id = property_id, !.tenant_id = tenant_id,
                            !.pc = "read",
                            !.cache_key = S_revenue_colon \o tenant_id \o <<":">> \o property_id]]
    /\ UNCHANGED <<kin, kout, store, inv, db, stale>>

\* cache.py:45, the call and the key derivation, which is outside every try
get_revenue_summary_call(r, property_id, tenant_id) ==
    /\ reqs[r].pc = "idle"
    /\ LET k == make_cache_key(tenant_id, property_id)
           f == [IdleReq EXCEPT !.property_id = property_id, !.tenant_id = tenant_id]
       IN IF k.raised # "none"
          THEN /\ reqs' = [reqs EXCEPT ![r] = [f EXCEPT !.pc = "done", !.outcome = Raised(k.raised)]]
               /\ stale' = stale
          ELSE /\ reqs' = [reqs EXCEPT ![r] = [f EXCEPT !.pc = "read", !.cache_key = k.value,
                                                    !.after_inval = <<tenant_id, k.value>> \in stale]]
               /\ stale' = stale \ {<<tenant_id, k.value>>}
    /\ UNCHANGED <<kin, kout, store, inv, db>>

\* mutation: an unreachable store fails the request
get_revenue_summary_read_raising(r) ==
    /\ reqs[r].pc = "read"
    /\ \E reachable \in BOOLEAN :
        LET f == reqs[r]
            key == f.cache_key
        IN IF ~reachable
           THEN reqs' = [reqs EXCEPT ![r] = [f EXCEPT !.pc = "done", !.saw = "fail",
                                                     !.outcome = Raised("ConnectionError")]]
           ELSE IF key \notin DOMAIN store \/ store[key].val = <<>>
           THEN reqs' = [reqs EXCEPT ![r] = [f EXCEPT !.pc = "miss", !.saw = "absent"]]
           ELSE LET v == JsonLoads(store[key].val)
                IN IF v.raised = "none"
                   THEN reqs' = [reqs EXCEPT ![r] =
                            [f EXCEPT !.pc = "done", !.saw = "hit", !.outcome = v]]
                   ELSE reqs' = [reqs EXCEPT ![r] =
                            [f EXCEPT !.pc = "done", !.saw = "corrupt", !.outcome = v]]
    /\ UNCHANGED <<kin, kout, store, inv, db, stale>>

\* mutation: a hit stores the value it read once more
get_revenue_summary_read_restoring(r) ==
    /\ reqs[r].pc = "read"
    /\ \E reachable \in BOOLEAN :
        LET f == reqs[r]
            key == f.cache_key
        IN IF ~reachable
           THEN reqs' = [reqs EXCEPT ![r] = [f EXCEPT !.pc = "miss", !.saw = "fail"]]
           ELSE IF key \notin DOMAIN store \/ store[key].val = <<>>
           THEN reqs' = [reqs EXCEPT ![r] = [f EXCEPT !.pc = "miss", !.saw = "absent"]]
           ELSE LET v == JsonLoads(store[key].val)
                IN IF v.raised = "none"
                   THEN reqs' = [reqs EXCEPT ![r] =
                            [f EXCEPT !.pc = "write", !.saw = "hit", !.result = v.value]]
                   ELSE reqs' = [reqs EXCEPT ![r] =
                            [f EXCEPT !.pc = "done", !.saw = "corrupt", !.outcome = v]]
    /\ UNCHANGED <<kin, kout, store, inv, db, stale>>

\* cache.py:47-56, the read: a hit returns json.loads(cached); an exception that is a
\* ValueError is re-raised, any other is logged and the request goes on as a miss
get_revenue_summary_read(r) ==
    /\ reqs[r].pc = "read"
    /\ \E reachable \in BOOLEAN :
        LET f == reqs[r]
            key == f.cache_key
        IN IF ~reachable
           THEN reqs' = [reqs EXCEPT ![r] = [f EXCEPT !.pc = "miss", !.saw = "fail"]]
           ELSE IF key \notin DOMAIN store \/ store[key].val = <<>>
           THEN reqs' = [reqs EXCEPT ![r] = [f EXCEPT !.pc = "miss", !.saw = "absent"]]
           ELSE LET v == JsonLoads(store[key].val)
                IN IF v.raised = "none"
                   THEN reqs' = [reqs EXCEPT ![r] =
                            [f EXCEPT !.pc = "done", !.saw = "hit", !.outcome = v]]
                   ELSE IF v.raised = "ValueError"
                   THEN reqs' = [reqs EXCEPT ![r] =
                            [f EXCEPT !.pc = "done", !.saw = "corrupt", !.outcome = v]]
                   ELSE reqs' = [reqs EXCEPT ![r] = [f EXCEPT !.pc = "miss", !.saw = "fail"]]
    /\ UNCHANGED <<kin, kout, store, inv, db, stale>>

\* cache.py:58-62, the miss: calculate_monthly_revenue(property_id, tenant_id, 3, 2024)
get_revenue_summary_aggregate(r) ==
    /\ reqs[r].pc = "miss"
    /\ \E up \in BOOLEAN :
        LET f == reqs[r]
            a == calculate_monthly_revenue(f.property_id, f.tenant_id, 3, 2024,
                                           up, PropertiesTable, db)
        IN IF a.raised # "none"
           THEN reqs' = [reqs EXCEPT ![r] = [f EXCEPT !.pc = "done", !.outcome = a,
                                                     !.agg = IF up THEN "db" ELSE "down"]]
           ELSE reqs' = [reqs EXCEPT ![r] = [f EXCEPT !.pc = "write", !.result = a.value,
                                                     !.agg = IF up THEN "db" ELSE "down"]]
    /\ UNCHANGED <<kin, kout, store, inv, db, stale>>

\* mutation: an exception of setex fails the request
get_revenue_summary_write_raising(r) ==
    /\ reqs[r].pc = "write"
    /\ \E w \in {"ok", "refused"} :
        LET f == reqs[r]
        IN IF w = "refused"
           THEN /\ reqs' = [reqs EXCEPT ![r] = [f EXCEPT !.pc = "done", !.wrote = w,
                                                      !.outcome = Raised("ConnectionError")]]
                /\ store' = store
           ELSE /\ reqs' = [reqs EXCEPT ![r] = [f EXCEPT !.pc = "done", !.wrote = w,
                                                      !.outcome = Returned(f.result)]]
                /\ store' = WithEntry(store, f.cache_key, JsonDumps(f.result), CACHE_TTL, f.result)
    /\ UNCHANGED <<kin, kout, inv, db, stale>>

\* cache.py:64-70, the write and the return: an exception of setex is logged only
get_revenue_summary_write(r) ==
    /\ reqs[r].pc = "write"
    /\ \E w \in {"ok", "refused"} :
        LET f == reqs[r]
            done == [f EXCEPT !.pc = "done", !.wrote = w, !.outcome = Returned(f.result)]
        IN IF w = "refused"
           THEN /\ reqs' = [reqs EXCEPT ![r] = done]
                /\ store' = store
                /\ stale' = stale
           ELSE /\ reqs' = [q \in DOMAIN reqs |->
                                IF q = r THEN done
                                ELSE IF reqs[q].cache_key = f.cache_key
                                     THEN [reqs[q] EXCEPT !.after_inval = FALSE]
                                     ELSE reqs[q]]
                /\ store' = WithEntry(store, f.cache_key, JsonDumps(f.result), CACHE_TTL, f.result)
                /\ stale' = Fresh(stale, {f.cache_key})
    /\ UNCHANGED <<kin, kout, inv, db>>

\* the caller has the outcome; the slot is free for the next request
get_revenue_summary_return(r) ==
    /\ reqs[r].pc = "done"
    /\ reqs' = [reqs EXCEPT ![r] = IdleReq]
    /\ UNCHANGED <<kin, kout, store, inv, db, stale>>

\* tenant ids invalidate_tenant_cache is called with
InvTenants == SysTenants \cup {<<>>}

\* what the history records when an invalidation of tenant_id has returned
Invalidated(st, tenant_id) == {<<tenant_id, k>> : k \in TenantKeys(st, tenant_id)}

\* cache.py:78-79, the call
invalidate_tenant_cache_call(tenant_id) ==
    /\ inv.pc = "idle"
    /\ IF tenant_id = <<>>
       THEN inv' = [IdleInv EXCEPT !.pc = "done", !.outcome = Raised("ValueError")]
       ELSE inv' = [IdleInv EXCEPT !.pc = "keys", !.tenant_id = tenant_id]
    /\ UNCHANGED <<kin, kout, store, reqs, db, stale>>

\* cache.py:82-83 and 87-90, KEYS revenue:<tenant_id>:* ; any exception returns 0
invalidate_tenant_cache_keys ==
    /\ inv.pc = "keys"
    /\ \E reachable \in BOOLEAN :
        LET pattern == S_revenue_colon \o inv.tenant_id \o <<":", "*">>
            keys == {k \in DOMAIN store : GlobMatch(pattern, k)}
            end == [inv EXCEPT !.pc = "done", !.outcome = Returned(0),
                               !.left = Cardinality(ScopedKeys(store, inv.tenant_id))]
        IN IF reachable /\ keys # {}
           THEN inv' = [inv EXCEPT !.pc = "delete", !.keys = keys]
                /\ stale' = stale
           ELSE /\ inv' = [end EXCEPT !.fault = IF reachable THEN "none" ELSE "refused"]
                /\ stale' = stale \cup Invalidated(store, inv.tenant_id)
    /\ UNCHANGED <<kin, kout, store, reqs, db>>

\* cache.py:84-90, DEL keys... ; the reply is the number of keys the store removed,
\* and an exception (before or after the store applied the command) returns 0
invalidate_tenant_cache_delete ==
    /\ inv.pc = "delete"
    /\ \E w \in {"ok", "refused", "lost_reply"} :
        LET gone == IF w = "refused" THEN {} ELSE inv.keys \cap DOMAIN store
            st == Without(store, gone)
        IN /\ store' = st
           /\ inv' = [inv EXCEPT !.pc = "done", !.keys = {}, !.removed = Cardinality(gone),
                                 !.left = Cardinality(ScopedKeys(st, inv.tenant_id)),
                                 !.fault = IF w = "ok" THEN "none" ELSE w,
                                 !.outcome = Returned(IF w = "ok" THEN Cardinality(gone) ELSE 0)]
           /\ stale' = Fresh(stale, gone) \cup Invalidated(st, inv.tenant_id)
    /\ UNCHANGED <<kin, kout, reqs, db>>

\* the caller has the outcome
invalidate_tenant_cache_return ==
    /\ inv.pc = "done"
    /\ inv' = IdleInv
    /\ UNCHANGED <<kin, kout, store, reqs, db, stale>>

-----------------------------------------------------------------------------
(* dashboard.py: the endpoint in front of get_revenue_summary *)

\* AuthenticatedUser.tenant_id: None or a string
NoTenant == [is_none |-> TRUE, tenant_id |-> <<>>]
Tenant(t) == [is_none |-> FALSE, tenant_id |-> t]

\* HTTPException(status_code, detail): no summary field goes out with it
HTTPException(status_code, detail) ==
    [status_code |-> status_code, detail |-> detail, body |-> EmptyDict]

\* mutation: the tenant id of a user without one defaults to a placeholder
get_tenant_id_defaulting(user) ==
    IF user.is_none \/ user.tenant_id = <<>> THEN Returned(S_default_tenant)
    ELSE Returned(user.tenant_id)

\* dashboard.py:31-47, _get_tenant_id: None and "" are falsy
get_tenant_id(user) ==
    IF user.is_none \/ user.tenant_id = <<>> THEN Raised("HTTP403")
    ELSE Returned(user.tenant_id)

\* mutation: the summary goes out without the tenant comparison
get_dashboard_summary_response_unchecked(outcome, tenant_id) ==
    IF outcome.raised = "ValueError" THEN HTTPException(500, "Internal error")
    ELSE IF outcome.raised # "none" THEN HTTPException(500, "Failed to retrieve data")
    ELSE LET data == outcome.value
         IN [status_code |-> 200, detail |-> "",
             body |-> [property_id |-> data.property_id, total_revenue |-> data.total,
                       currency |-> data.currency, reservations_count |-> data.count]]

\* mutation: a ValueError of the core is reported like any other exception
get_dashboard_summary_response_untyped(outcome, tenant_id) ==
    IF outcome.raised # "none" THEN HTTPException(500, "Failed to retrieve data")
    ELSE LET data == outcome.value
         IN IF "tenant_id" \in DOMAIN data /\ data.tenant_id # <<>>
               /\ data.tenant_id # tenant_id
            THEN HTTPException(500, "Data integrity error")
            ELSE [status_code |-> 200, detail |-> "",
                  body |-> [property_id |-> data.property_id, total_revenue |-> data.total,
                            currency |-> data.currency, reservations_count |-> data.count]]

\* dashboard.py:66-86, what get_dashboard_summary answers once get_revenue_summary
\* has ended with outcome: the two except branches, the tenant comparison (skipped
\* when the summary's tenant_id is missing or empty) and the response body
get_dashboard_summary_response(outcome, tenant_id) ==
    IF outcome.raised = "ValueError" THEN HTTPException(500, "Internal error")
    ELSE IF outcome.raised # "none" THEN HTTPException(500, "Failed to retrieve data")
    ELSE LET data == outcome.value
         IN IF "tenant_id" \in DOMAIN data /\ data.tenant_id # <<>>
               /\ data.tenant_id # tenant_id
            THEN HTTPException(500, "Data integrity error")
            ELSE [status_code |-> 200, detail |-> "",
                  body |-> [property_id |-> data.property_id, total_revenue |-> data.total,
                            currency |-> data.currency, reservations_count |-> data.count]]

\* the HTTP request waiting in kin: the property_id query parameter and the user
DashReq(property_id, user) == [property_id |-> property_id, user |-> user]

\* what kout records of the answer: the response, and the frame of the call of
\* get_revenue_summary it came from (IdleReq when there was no call)
Answer(resp, core) ==
    [status_code |-> resp.status_code, detail |-> resp.detail, body |-> resp.body,
     core |-> core]

\* frame r is the call of get_revenue_summary the endpoint is waiting for (line 67)
DashFrame(r) ==
    /\ kin # <<>> /\ kout = <<>>
    /\ reqs[r].pc # "idle"
    /\ validate_property_id(kin[1].property_id).raised = "none"
    /\ get_tenant_id(kin[1].user).raised = "none"
    /\ reqs[r].property_id = kin[1].property_id
    /\ reqs[r].tenant_id = get_tenant_id(kin[1].user).value

\* dashboard.py:61-67: validate the property id, then extract the tenant id, then
\* call get_revenue_summary; either check answers at once when it fails
get_dashboard_summary_call(r) ==
    /\ kin # <<>> /\ kout = <<>>
    /\ \A q \in DOMAIN reqs : ~DashFrame(q)
    /\ reqs[r].pc = "idle"
    /\ LET property_id == validate_property_id(kin[1].property_id)
           tenant_id == get_tenant_id(kin[1].user)
       IN IF property_id.raised # "none"
          THEN /\ kout' = <<Answer(HTTPException(400, "Invalid property_id format"), IdleReq)>>
               /\ UNCHANGED <<kin, store, reqs, inv, db, stale>>
          ELSE IF tenant_id.raised # "none"
          THEN /\ kout' = <<Answer(HTTPException(403, "User not associated with a tenant"),
                                   IdleReq)>>
               /\ UNCHANGED <<kin, store, reqs, inv, db, stale>>
          ELSE get_revenue_summary_call(r, property_id.value, tenant_id.value)

\* dashboard.py:67-86: get_revenue_summary has ended; the endpoint answers
get_dashboard_summary_respond(r) ==
    /\ DashFrame(r)
    /\ reqs[r].pc = "done"
    /\ kout' = <<Answer(get_dashboard_summary_response(reqs[r].outcome, reqs[r].tenant_id),
                        reqs[r])>>
    /\ reqs' = [reqs EXCEPT ![r] = IdleReq]
    /\ UNCHANGED <<kin, store, inv, db, stale>>

\* another caller of the core: get_revenue_summary("b:c", "a"), whose key is the key
\* of property c of tenant a:b
direct_call(r) ==
    /\ \A q \in DOMAIN reqs : ~DashFrame(q)
    /\ get_revenue_summary_call(r, P_bc, T_a)

\* the other caller has its outcome
direct_return(r) ==
    /\ ~DashFrame(r)
    /\ get_revenue_summary_return(r)

-----------------------------------------------------------------------------
(* The environment of the service *)

\* an external writer books a reservation
insert_reservation ==
    /\ Cardinality(db) < MaxRows
    /\ Cardinality(db) < Len(ReservationPool)
    /\ db' = db \cup {ReservationPool[Cardinality(db) + 1]}
    /\ UNCHANGED <<kin, kout, store, reqs, inv, stale>>

\* the store drops an entry whose TTL has run out
expire(k) ==
    /\ k \in DOMAIN store
    /\ store' = Without(store, {k})
    /\ stale' = Fresh(stale, {k})
    /\ UNCHANGED <<kin, kout, reqs, inv, db>>

\* the bytes of an entry are damaged: the value is cut short of its closing brace
corrupt(k) ==
    /\ k \in DOMAIN store
    /\ JsonLoads(store[k].val).raised = "none"
    /\ store' = [store EXCEPT ![k].val = SubSeq(store[k].val, 1, Len(store[k].val) - 1)]
    /\ UNCHANGED <<kin, kout, reqs, inv, db, stale>>

-----------------------------------------------------------------------------
(* Specifications *)

EmptyStore == [k \in {} |-> [val |-> <<>>, ttl |-> 0, src |-> EmptyDict]]

SystemInit ==
    /\ store = EmptyStore
    /\ reqs = [r \in Reqs |-> IdleReq]
    /\ inv = IdleInv
    /\ db = {}
    /\ stale = {}

Init == kin = <<>> /\ kout = <<>> /\ SystemInit

\* the requests, the invalidation and the environment of the store and the data source
Next ==
    \/ \E r \in DOMAIN reqs, c \in AllCalls : get_revenue_summary_call(r, c[2], c[1])
    \/ \E r \in DOMAIN reqs : get_revenue_summary_read(r)
    \/ \E r \in DOMAIN reqs : get_revenue_summary_aggregate(r)
    \/ \E r \in DOMAIN reqs : get_revenue_summary_write(r)
    \/ \E r \in DOMAIN reqs : get_revenue_summary_return(r)
    \/ \E t \in InvTenants : invalidate_tenant_cache_call(t)
    \/ invalidate_tenant_cache_keys
    \/ invalidate_tenant_cache_delete
    \/ invalidate_tenant_cache_return
    \/ insert_reservation
    \/ \E k \in DOMAIN store : expire(k)

Spec == Init /\ [][Next]_vars

\* the requests alone, against a store whose entries may also be damaged
NextGet ==
    \/ \E r \in DOMAIN reqs, c \in AllCalls : get_revenue_summary_call(r, c[2], c[1])
    \/ \E r \in DOMAIN reqs : get_revenue_summary_read(r)
    \/ \E r \in DOMAIN reqs : get_revenue_summary_aggregate(r)
    \/ \E r \in DOMAIN reqs : get_revenue_summary_write(r)
    \/ \E r \in DOMAIN reqs : get_revenue_summary_return(r)
    \/ insert_reservation
    \/ \E k \in DOMAIN store : expire(k)
    \/ \E k \in DOMAIN store : corrupt(k)

SpecGet == Init /\ [][NextGet]_vars

\* the sentinel words in every mix of upper and lower case
CaseVariants(w) ==
    {[i \in 1..Len(w) |-> IF i \in S THEN UpperChar(w[i]) ELSE w[i]] : S \in SUBSET (1..Len(w))}

\* tenant ids for the rejection check: short strings with whitespace, the fallback
\* words in every case, and near misses of them
RejectTenants ==
    StrsUpTo({"a", " ", "\t"}, MaxLen)
    \cup CaseVariants(S_default_tenant) \cup CaseVariants(S_null)
    \cup CaseVariants(S_undefined) \cup CaseVariants(S_none)
    \cup {<<" ">> \o S_null, S_null \o <<" ">>, S_none \o <<"s">>, <<"n","u","l">>, S_tenant_a}

\* tenant and property ids for the collision check
KeyTenants == StrsUpTo({"a", ":"}, MaxLen) \cup {S_none}
KeyProps == StrsUpTo({"a", ":"}, MaxLen)

Arg(t, p) == [tenant_id |-> t, property_id |-> p]

InitReject ==
    /\ kin \in {<<Arg(t, p)>> : t \in RejectTenants, p \in {P_c, S_prop_001}}
    /\ kout = <<>>
    /\ SystemInit

InitKey ==
    /\ kin \in {<<Arg(t1, p1), Arg(t2, p2)>> :
                   t1 \in KeyTenants, p1 \in KeyProps, t2 \in KeyTenants, p2 \in KeyProps}
    /\ kout = <<>>
    /\ SystemInit

\* _make_cache_key applied to each argument pair
derive_keys ==
    /\ kout = <<>>
    /\ kin # <<>>
    /\ kout' = [i \in 1..Len(kin) |-> make_cache_key(kin[i].tenant_id, kin[i].property_id)]
    /\ UNCHANGED <<kin, store, reqs, inv, db, stale>>

NextKey == derive_keys

SpecReject == InitReject /\ [][NextKey]_vars

SpecKey == InitKey /\ [][NextKey]_vars

\* the users and property ids of the HTTP requests
DashUsers ==
    {NoTenant, Tenant(<<>>), Tenant(<<" ">>), Tenant(<<"N","o","n","e">>),
     Tenant(T_a), Tenant(T_ab)}
DashProps == {P_c, P_bc, <<>>}

InitDash ==
    /\ kin \in {<<DashReq(p, u)>> : p \in DashProps, u \in DashUsers}
    /\ kout = <<>>
    /\ SystemInit

\* one HTTP request through the endpoint, next to another caller of the core
NextDash ==
    \/ \E r \in DOMAIN reqs : get_dashboard_summary_call(r)
    \/ \E r \in DOMAIN reqs : get_revenue_summary_read(r)
    \/ \E r \in DOMAIN reqs : get_revenue_summary_aggregate(r)
    \/ \E r \in DOMAIN reqs : get_revenue_summary_write(r)
    \/ \E r \in DOMAIN reqs : get_dashboard_summary_respond(r)
    \/ \E r \in DOMAIN reqs : direct_call(r)
    \/ \E r \in DOMAIN reqs : direct_return(r)
    \/ insert_reservation

SpecDash == InitDash /\ [][NextDash]_vars

\* the zone names a properties row may hold; the last is not in the zone database
AggZones == KnownZones \cup {"US/Pacific-New"}

\* the callers of the aggregation, the months and the years
AggCalls == {<<P_c, T_a>>, <<S_prop_001, S_tenant_a>>}
AggMonths == 1..12
AggYears == {2023, 2024}

\* the zone the boundaries of a property are taken in when nothing fails
ZoneOf(props, property_id, tenant_id) ==
    LET tz_rows == {x \in props : x.id = property_id /\ x.tenant_id = tenant_id}
    IN IF tz_rows = {} THEN "UTC" ELSE (CHOOSE x \in tz_rows : TRUE).timezone

\* reservations around the period of (property_id, tenant_id) that starts at hour s
\* and ends at hour e: four inside it, one at its end, one before its start, one of
\* another tenant and one of another property
AggPool(property_id, tenant_id, s, e) ==
    {[id |-> 1, property_id |-> property_id, tenant_id |-> tenant_id,
      check_in |-> s, total_cents |-> 9999],
     [id |-> 2, property_id |-> property_id, tenant_id |-> tenant_id,
      check_in |-> s + 1, total_cents |-> 14999],
     [id |-> 3, property_id |-> property_id, tenant_id |-> tenant_id,
      check_in |-> e - 1, total_cents |-> 19999],
     [id |-> 4, property_id |-> property_id, tenant_id |-> tenant_id,
      check_in |-> s + 24, total_cents |-> 3],
     [id |-> 5, property_id |-> property_id, tenant_id |-> tenant_id,
      check_in |-> e, total_cents |-> 5000],
     [id |-> 6, property_id |-> property_id, tenant_id |-> tenant_id,
      check_in |-> s - 1, total_cents |-> 7000],
     [id |-> 7, property_id |-> property_id, tenant_id |-> T_ab,
      check_in |-> s + 2, total_cents |-> 11111],
     [id |-> 8, property_id |-> S_prop_002, tenant_id |-> tenant_id,
      check_in |-> s + 2, total_cents |-> 22222]}

\* one call of calculate_monthly_revenue and the data source it runs against: the
\* properties table holds a row with the zone, or no row when zone is "", and the
\* reservations table holds the picked reservations
AggInput(c, month, year, up, zone, picked) ==
    [property_id |-> c[1], tenant_id |-> c[2], month |-> month, year |-> year, up |-> up,
     props |-> IF zone = "" THEN {}
               ELSE {[id |-> c[1], tenant_id |-> c[2], timezone |-> zone]},
     picked |-> picked]

AggInputs ==
    {AggInput(c, m, y, up, z, picked) :
        c \in AggCalls, m \in AggMonths, y \in AggYears, up \in BOOLEAN,
        z \in AggZones \cup {""}, picked \in SUBSET (1..8)}

\* the reservations table of an input: the picked reservations, placed around the
\* period of its month in the zone that applies to its property (UTC for a zone
\* that is not recognised)
RowsOf(i) ==
    LET tz == ZoneOf(i.props, i.property_id, i.tenant_id)
        b == PeriodBounds(IF tz \in KnownZones THEN tz ELSE "UTC", i.month, i.year)
    IN {x \in AggPool(i.property_id, i.tenant_id, b.utc_start, b.utc_end) :
           x.id \in i.picked}

\* utc_start and utc_end were never assigned
NoBounds == [fallback |-> FALSE, utc_start |-> 0, utc_end |-> 0]

InitAgg ==
    /\ kin \in {<<i>> : i \in AggInputs}
    /\ kout = <<>>
    /\ SystemInit

\* calculate_monthly_revenue applied to the input; kout keeps its outcome and the
\* values of utc_start and utc_end of lines 59-66
calculate ==
    /\ kout = <<>>
    /\ kin # <<>>
    /\ LET i == kin[1]
           tz == ZoneOf(i.props, i.property_id, i.tenant_id)
       IN kout' = <<[bounds |-> IF pytz_timezone(tz).raised = "none"
                                THEN PeriodBounds(tz, i.month, i.year) ELSE NoBounds,
                     outcome |-> calculate_monthly_revenue(i.property_id, i.tenant_id,
                                     i.month, i.year, i.up, i.props, RowsOf(i))]>>
    /\ UNCHANGED <<kin, store, reqs, inv, db, stale>>

NextAgg == calculate

SpecAgg == InitAgg /\ [][NextAgg]_vars

\* the frames of requests that run side by side: one more than in the other
\* specifications, so that two requests are in flight at once
Racers == 1..(NumReqs + 1)

InitRace ==
    /\ kin = <<>> /\ kout = <<>>
    /\ store = EmptyStore
    /\ reqs = [r \in Racers |-> IdleReq]
    /\ inv = IdleInv
    /\ db = {}
    /\ stale = {}

\* get_revenue_summary("c", "a") in frame 1, at any time
early_call(r) ==
    /\ r = 1
    /\ get_revenue_summary_call(r, P_c, T_a)

\* get_revenue_summary("c", "a") in another frame, started after
\* invalidate_tenant_cache has returned
late_call(r) ==
    /\ r # 1
    /\ inv.pc = "done"
    /\ get_revenue_summary_call(r, P_c, T_a)

\* the writer books its reservations before it invalidates
book_reservation ==
    /\ inv.pc = "idle"
    /\ insert_reservation

\* requests for one (property, tenant) side by side with a writer that books
\* reservations and then calls invalidate_tenant_cache("a") once
NextRace ==
    \/ \E r \in DOMAIN reqs : early_call(r)
    \/ \E r \in DOMAIN reqs : late_call(r)
    \/ \E r \in DOMAIN reqs : get_revenue_summary_read(r)
    \/ \E r \in DOMAIN reqs : get_revenue_summary_aggregate(r)
    \/ \E r \in DOMAIN reqs : get_revenue_summary_write(r)
    \/ \E r \in DOMAIN reqs : get_revenue_summary_return(r)
    \/ book_reservation
    \/ invalidate_tenant_cache_call(T_a)
    \/ invalidate_tenant_cache_keys
    \/ invalidate_tenant_cache_delete

SpecRace == InitRace /\ [][NextRace]_vars

-----------------------------------------------------------------------------
(* Properties of the key derivation *)

FallbackWords == {S_default_tenant, S_null, S_undefined, S_none}

\* s is empty, whitespace only, or one of the fallback words in some mix of cases
Rejectable(s) ==
    \/ s = <<>>
    \/ \A i \in 1..Len(s) : IsSpace(s[i])
    \/ \E w \in FallbackWords :
          Len(s) = Len(w) /\ \A i \in 1..Len(s) : s[i] \in {w[i], UpperChar(w[i])}

Accepted(i) == kout[i].raised = "none"

\* C1: for every property id, _make_cache_key raises ValueError and returns no key when
\* the tenant id is empty, whitespace only, or a fallback word in any mix of cases
C1_RejectsFallbackTenants ==
    kout # <<>> =>
        \A i \in 1..Len(kin) :
            Rejectable(kin[i].tenant_id) =>
                kout[i].raised = "ValueError" /\ kout[i].value = <<>>

C1_Witness ==
    /\ kout # <<>>
    /\ kin[1].tenant_id = <<"D","e","f","a","u","l","t","_","T","e","n","a","n","t">>
    /\ kout[1].raised = "ValueError"

\* C2: accepted tenant ids t1 # t2 get different keys for the same property id, and
\* the key of (t, p) starts with "revenue:" followed by t
C2_TenantsGetDistinctKeys ==
    kout # <<>> =>
        /\ (Accepted(1) /\ Accepted(2)
              /\ kin[1].tenant_id # kin[2].tenant_id
              /\ kin[1].property_id = kin[2].property_id)
           => kout[1].value # kout[2].value
        /\ \A i \in 1..Len(kin) :
              Accepted(i) => StartsWith(kout[i].value, S_revenue_colon \o kin[i].tenant_id)

C2_Witness ==
    /\ kout # <<>>
    /\ kin[1] = Arg(<<"a">>, <<":">>)
    /\ kin[2] = Arg(<<"a", ":">>, <<":">>)
    /\ Accepted(1) /\ Accepted(2)
    /\ kout[1].value # kout[2].value

\* C3: the key is a collision-free function of the pair (tenant id, property id), also
\* when an identifier contains ':': accepted pairs that differ get different keys
C3_KeysCollisionFree ==
    kout # <<>> =>
        ((Accepted(1) /\ Accepted(2) /\ kin[1] # kin[2]) => kout[1].value # kout[2].value)

-----------------------------------------------------------------------------
(* Properties of get_revenue_summary *)

\* C4: a request whose tenant id the key derivation rejects ends with that ValueError
\* and never reads the store, queries the data source or writes the store
C4_RejectedTenantTouchesNothing ==
    \A r \in DOMAIN reqs :
        (reqs[r].pc # "idle"
           /\ make_cache_key(reqs[r].tenant_id, reqs[r].property_id).raised # "none")
        => /\ reqs[r].pc = "done"
           /\ reqs[r].outcome.raised = "ValueError"
           /\ reqs[r].saw = "none" /\ reqs[r].agg = "none" /\ reqs[r].wrote = "none"

C4_Witness ==
    \E r \in DOMAIN reqs :
        /\ reqs[r].pc = "done"
        /\ reqs[r].tenant_id = <<"N","o","n","e">>
        /\ reqs[r].outcome.raised = "ValueError"
        /\ reqs[r].saw = "none"

\* C5: a request that finds an entry it cannot deserialize goes on as a miss: it
\* aggregates and returns the summary, and no error reaches the caller
C5_CorruptEntryIsMiss ==
    \A r \in DOMAIN reqs :
        (reqs[r].saw = "corrupt" /\ reqs[r].pc = "done")
        => reqs[r].outcome.raised = "none" /\ reqs[r].agg # "none"

\* C6: a request whose aggregation found the data source unavailable ends with an
\* error, and no request returns a mock summary
C6_UnavailableSourceFails ==
    \A r \in DOMAIN reqs :
        /\ reqs[r].agg = "down" => reqs[r].pc = "done" /\ reqs[r].outcome.raised # "none"
        /\ (reqs[r].pc = "done" /\ reqs[r].outcome.raised = "none")
           => "is_mock" \notin DOMAIN reqs[r].outcome.value

\* C7: a request whose store read failed goes on to the aggregation and returns what
\* the aggregation produced; no error reaches the caller
C7_ReadFailureIsMiss ==
    \A r \in DOMAIN reqs :
        reqs[r].saw = "fail"
        => /\ reqs[r].pc \in {"miss", "write", "done"}
           /\ reqs[r].pc = "done"
              => /\ reqs[r].outcome.raised = "none"
                 /\ reqs[r].agg # "none"
                 /\ reqs[r].outcome.value = reqs[r].result

C7_Witness ==
    \E r \in DOMAIN reqs :
        /\ reqs[r].pc = "done"
        /\ reqs[r].saw = "fail"
        /\ reqs[r].agg = "db"
        /\ reqs[r].outcome.raised = "none"
        /\ reqs[r].outcome.value.count = 1

\* C8: a request whose store write failed returns the summary it computed, the same
\* outcome as when the write succeeds
C8_WriteFailureNonFatal ==
    \A r \in DOMAIN reqs :
        reqs[r].wrote # "none"
        => /\ reqs[r].pc = "done"
           /\ reqs[r].outcome.raised = "none"
           /\ reqs[r].outcome.value = reqs[r].result

C8_Witness ==
    \E r \in DOMAIN reqs :
        /\ reqs[r].pc = "done"
        /\ reqs[r].wrote = "refused"
        /\ reqs[r].outcome.raised = "none"
        /\ reqs[r].outcome.value.count = 1
        /\ reqs[r].cache_key \notin DOMAIN store

-----------------------------------------------------------------------------
(* Properties of invalidate_tenant_cache *)

\* C9: the first request for (tenant, property) that starts after an invalidation of
\* the tenant has returned does not return the entry cached before the invalidation
C9_NextGetRecomputes ==
    \A r \in DOMAIN reqs : reqs[r].after_inval => reqs[r].saw # "hit"

\* C10: invalidate_tenant_cache raises ValueError for the empty tenant id; for any
\* other it leaves no live entry scoped to the tenant and returns the number of
\* entries it removed
C10_InvalidateRemovesAndCounts ==
    inv.pc = "done" =>
        IF inv.tenant_id = <<>>
        THEN inv.outcome.raised = "ValueError"
        ELSE /\ inv.outcome.raised = "none"
             /\ inv.left = 0
             /\ inv.outcome.value = inv.removed

-----------------------------------------------------------------------------
(* Properties of repeated requests *)

\* C11: while the reservations are unchanged (none has been booked yet) and the entry
\* cached for (tenant, property) is still live, every request for the same pair
\* returns the summary that populated the entry, with the same fields and values,
\* whether it was served from the cache or computed freshly
C11_RepeatedCallsAgree ==
    \A r \in DOMAIN reqs :
        (/\ db = {}
         /\ reqs[r].pc = "done"
         /\ reqs[r].outcome.raised = "none"
         /\ reqs[r].cache_key \in DOMAIN store
         /\ store[reqs[r].cache_key].src.tenant_id = reqs[r].tenant_id
         /\ store[reqs[r].cache_key].src.property_id = reqs[r].property_id)
        => reqs[r].outcome.value = store[reqs[r].cache_key].src

-----------------------------------------------------------------------------
(* Properties of the endpoint *)

\* the request got its answer
Answered == kin # <<>> /\ kout # <<>>

\* the user of the request has no tenant id: None or the empty string
Tenantless == kin # <<>> /\ (kin[1].user.is_none \/ kin[1].user.tenant_id = <<>>)

\* C12: when the summary get_revenue_summary handed to the endpoint carries a tenant_id
\* other than the requesting tenant's, the answer is HTTP 500 'Data integrity error'
\* and holds none of the summary's fields
C12_MismatchIsIntegrityFault ==
    (/\ Answered
     /\ kout[1].core.outcome.raised = "none"
     /\ kout[1].core.outcome.value.tenant_id # kin[1].user.tenant_id)
    => /\ kout[1].status_code = 500
       /\ kout[1].detail = "Data integrity error"
       /\ kout[1].body = EmptyDict

C12_Witness ==
    /\ Answered
    /\ kin[1] = DashReq(P_c, Tenant(T_ab))
    /\ kout[1].core.saw = "hit"
    /\ kout[1].core.outcome.raised = "none"
    /\ kout[1].core.outcome.value.tenant_id = T_a
    /\ kout[1].detail = "Data integrity error"

\* C13 as stated: a request of a user without a tenant id is answered 403 whatever
\* else it holds
C13_TenantlessAlways403 ==
    (Answered /\ Tenantless) => kout[1].status_code = 403

\* C13: a request of a user without a tenant id never gets a call of
\* get_revenue_summary and is rejected: 403 when its property id is well formed, 400
\* when it is not (the property id is validated first); nothing is defaulted. For a
\* user with tenant id t and a well formed property id the call is made with exactly t
C13_TenantlessRejected ==
    /\ Tenantless
       => /\ \A r \in DOMAIN reqs : reqs[r].pc # "idle" => reqs[r].property_id = P_bc
          /\ Answered
             => /\ kout[1].core = IdleReq
                /\ kout[1].body = EmptyDict
                /\ kout[1].status_code =
                      IF validate_property_id(kin[1].property_id).raised = "none"
                      THEN 403 ELSE 400
    /\ (Answered /\ ~Tenantless /\ kout[1].core # IdleReq)
       => kout[1].core.tenant_id = kin[1].user.tenant_id

C13_Witness ==
    /\ Answered
    /\ kin[1] = DashReq(P_c, NoTenant)
    /\ kout[1].status_code = 403
    /\ kout[1].core = IdleReq
    /\ store # EmptyStore

\* C14: a request with a well formed property id whose user's tenant id is whitespace
\* only or a fallback word is answered HTTP 500 with the fixed detail 'Internal error'
\* and no summary field, the same answer for every such tenant id
C14_RejectedTenantIsOpaque ==
    (/\ Answered
     /\ ~Tenantless
     /\ Rejectable(kin[1].user.tenant_id)
     /\ validate_property_id(kin[1].property_id).raised = "none")
    => /\ kout[1].status_code = 500
       /\ kout[1].detail = "Internal error"
       /\ kout[1].body = EmptyDict
       /\ kout[1].core.outcome = Raised("ValueError")

C14_Witness ==
    /\ Answered
    /\ kin[1] = DashReq(P_c, Tenant(<<"N","o","n","e">>))
    /\ kout[1].status_code = 500
    /\ kout[1].detail = "Internal error"
    /\ kout[1].core.saw = "none"

-----------------------------------------------------------------------------
(* Properties of calculate_monthly_revenue *)

\* calculate_monthly_revenue has returned or raised
Calculated == kin # <<>> /\ kout # <<>> /\ "up" \in DOMAIN kin[1]

\* the zone stored for the property of the input
InputZone == ZoneOf(kin[1].props, kin[1].property_id, kin[1].tenant_id)

\* the month after the input's, and its year
FollowingMonth == IF kin[1].month = 12 THEN 1 ELSE kin[1].month + 1
FollowingYear == IF kin[1].month = 12 THEN kin[1].year + 1 ELSE kin[1].year

\* the period of the input: local midnights of the first of the month and of the
\* following month for a recognised zone whose midnights exist, the same instants
\* read as UTC otherwise
PeriodStart ==
    LET l == localize_utc(InputZone, kin[1].year, kin[1].month)
        e == localize_utc(InputZone, FollowingYear, FollowingMonth)
    IN IF InputZone \in KnownZones /\ l.raised = "none" /\ e.raised = "none"
       THEN l.value ELSE NaiveHours(kin[1].year, kin[1].month)
PeriodEnd ==
    LET l == localize_utc(InputZone, kin[1].year, kin[1].month)
        e == localize_utc(InputZone, FollowingYear, FollowingMonth)
    IN IF InputZone \in KnownZones /\ l.raised = "none" /\ e.raised = "none"
       THEN e.value ELSE NaiveHours(FollowingYear, FollowingMonth)

\* the reservations of the input's property and tenant that check in within the period
Matching ==
    {x \in RowsOf(kin[1]) : /\ x.property_id = kin[1].property_id
                            /\ x.tenant_id = kin[1].tenant_id
                            /\ PeriodStart <= x.check_in
                            /\ x.check_in < PeriodEnd}

\* the call returned the sum and the number of the matching reservations
ReturnsMatching ==
    /\ kout[1].outcome.raised = "none"
    /\ kout[1].outcome.value.total = DecimalStr(SumCents(Matching))
    /\ kout[1].outcome.value.count = Cardinality(Matching)

C16_UnknownZoneFallsBackToUTC ==
    (Calculated /\ kin[1].up /\ InputZone \notin KnownZones)
    => /\ ReturnsMatching
       /\ "is_mock" \notin DOMAIN kout[1].outcome.value

\* C17: with the data source available and a recognised zone in which the local
\* midnight of the month start or end cannot be localised, the call takes the
\* UTC-naive first-of-month instants and returns the aggregate of the revenue query
\* for that range
C17_LocalizeFailureStillQueries ==
    (Calculated /\ kin[1].up /\ InputZone \in KnownZones /\ kout[1].bounds.fallback)
    => /\ ReturnsMatching
       /\ "is_mock" \notin DOMAIN kout[1].outcome.value

\* C18: with the data source available, total is the exact decimal sum and count the
\* number of exactly the reservations of the property and the tenant whose check-in
\* c satisfies start <= c < end
C18_TotalIsExactSumOfPeriod ==
    (Calculated /\ kin[1].up) => ReturnsMatching

\* C19: with the data source available and no matching reservation, the call returns
\* a summary with total "0.00" and count 0 and raises nothing
C19_NoMatchIsZero ==
    (Calculated /\ kin[1].up /\ Matching = {})
    => /\ kout[1].outcome.raised = "none"
       /\ kout[1].outcome.value.total = <<"0", ".", "0", "0">>
       /\ kout[1].outcome.value.count = 0

-----------------------------------------------------------------------------
(* Properties of the cached value *)

\* C20: the total a cache hit returns is, character for character, the total of the
\* summary the aggregation produced and the entry was written from
C20_TotalSurvivesCache ==
    [][\A r \in DOMAIN reqs :
          (reqs[r].pc = "read" /\ reqs'[r].saw = "hit")
          => /\ reqs'[r].outcome.raised = "none"
             /\ reqs'[r].outcome.value.total = store[reqs[r].cache_key].src.total]_vars

C20_Witness ==
    \E r \in DOMAIN reqs :
        /\ reqs[r].pc = "done"
        /\ reqs[r].saw = "hit"
        /\ reqs[r].agg = "none"
        /\ reqs[r].outcome.raised = "none"
        /\ reqs[r].outcome.value.total = <<"9", "9", ".", "9", "9">>

-----------------------------------------------------------------------------
(* Properties of the entries of the store *)

\* C21: every entry of the store was written from a summary the data source produced,
\* and a request whose aggregation found the data source unavailable writes no entry
C21_EntriesFromRealAggregation ==
    /\ \A k \in DOMAIN store : "is_mock" \notin DOMAIN store[k].src
    /\ \A r \in DOMAIN reqs : reqs[r].agg = "down" => reqs[r].wrote # "ok"

\* C24: the DEL of invalidate_tenant_cache(t) leaves every entry whose summary belongs
\* to a tenant other than t in the store, unchanged
C24_InvalidateSparesOtherTenants ==
    [][(inv.pc = "delete" /\ inv'.pc = "done")
       => \A k \in DOMAIN store :
             store[k].src.tenant_id # inv.tenant_id
             => k \in DOMAIN store' /\ store'[k] = store[k]]_vars

\* C25: a cache hit of a request for (tenant, property) yields a summary whose
\* tenant_id and property_id are the request's
C25_HitYieldsOwnSummary ==
    \A r \in DOMAIN reqs :
        (reqs[r].pc = "done" /\ reqs[r].saw = "hit" /\ reqs[r].outcome.raised = "none")
        => /\ reqs[r].outcome.value.tenant_id = reqs[r].tenant_id
           /\ reqs[r].outcome.value.property_id = reqs[r].property_id

\* C26: the step in which a request hits leaves the store and the data source as they
\* are and ends the request without aggregation or write; and an entry appears, or
\* changes into another readable value, only in the write step of a request that
\* missed and has not written before, with TTL 300
C26_HitHasNoSideEffects ==
    [][/\ \A r \in DOMAIN reqs :
             (reqs[r].pc = "read" /\ reqs'[r].saw = "hit")
             => /\ store' = store /\ db' = db
                /\ reqs'[r].pc = "done"
                /\ reqs'[r].agg = "none" /\ reqs'[r].wrote = "none"
       /\ \A k \in DOMAIN store' :
             (k \notin DOMAIN store
                \/ (store'[k] # store[k] /\ JsonLoads(store'[k].val).raised = "none"))
             => /\ store'[k].ttl = 300
                /\ \E r \in DOMAIN reqs :
                      /\ reqs[r].pc = "write" /\ reqs[r].cache_key = k
                      /\ reqs[r].saw \in {"absent", "fail"}
                      /\ reqs[r].wrote = "none" /\ reqs'[r].wrote = "ok"]_vars

C26_Witness ==
    \E r \in DOMAIN reqs :
        /\ reqs[r].pc = "done"
        /\ reqs[r].saw = "hit"
        /\ reqs[r].agg = "none" /\ reqs[r].wrote = "none"
        /\ reqs[r].outcome.raised = "none"
        /\ reqs[r].cache_key \in DOMAIN store
        /\ store[reqs[r].cache_key].ttl = CACHE_TTL
        /\ db # {}

-----------------------------------------------------------------------------
(* Properties of requests in flight together *)

\* C22: while no reservation has been booked, two requests for the same (property,
\* tenant) that have both missed and aggregated hold the same summary and are about
\* to write the same serialized value under the same key
C22_ConcurrentMissesAgree ==
    \A r1 \in DOMAIN reqs, r2 \in DOMAIN reqs :
        (/\ r1 # r2 /\ db = {}
         /\ reqs[r1].pc = "write" /\ reqs[r2].pc = "write"
         /\ reqs[r1].property_id = reqs[r2].property_id
         /\ reqs[r1].tenant_id = reqs[r2].tenant_id)
        => /\ reqs[r1].cache_key = reqs[r2].cache_key
           /\ reqs[r1].result = reqs[r2].result
           /\ JsonDumps(reqs[r1].result) = JsonDumps(reqs[r2].result)

\* C23: reservations were booked, then invalidate_tenant_cache of the tenant returned
\* having left no entry of the tenant, and the request of frame 1, which had
\* aggregated before the booking, wrote its summary; then a request started after the
\* invalidation that hits does not return that summary of before the booking
C23_InvalidationNotUndone ==
    \A r \in DOMAIN reqs :
        (/\ r # 1
         /\ db # {}
         /\ inv.pc = "done" /\ inv.outcome.raised = "none" /\ inv.fault = "none"
         /\ inv.left = 0
         /\ reqs[1].pc = "done" /\ reqs[1].agg = "db" /\ reqs[1].wrote = "ok"
         /\ reqs[1].result # calculate_monthly_revenue(reqs[1].property_id,
                                 reqs[1].tenant_id, 3, 2024, TRUE, PropertiesTable, db).value
         /\ reqs[r].pc = "done" /\ reqs[r].saw = "hit"
         /\ reqs[r].outcome.raised = "none")
        => reqs[r].outcome.value # reqs[1].result

====
